---- MODULE Spec2Model ----
(***************************************************************************)
(* Ladder scoring and standings engine of the referee allocator (app.py).  *)
(*                                                                         *)
(* The database tables read by the ladder (teams, games, game_results) are *)
(* the state.  The points calculator, the audit query and the ladder table *)
(* are operators translated from the Python/SQL source.                    *)
(*                                                                         *)
(* Seven specifications share the variables:                               *)
(*   SpecCalc   - calls of compute_points_breakdown_for_game on inputs the *)
(*                result form can produce;                                 *)
(*   SpecLadder - a database the program can hold, read by the audit and   *)
(*                the ladder table;                                        *)
(*   Spec       - the write operations, starting from the empty database;  *)
(*   SpecSeason - one fixture's season: the writes interleaved with the    *)
(*                audit, the ladder table and the validator;               *)
(*   SpecDraw   - the draw imported and replaced while results are saved;  *)
(*   SpecAdmin  - results saved through the "Save result" button;          *)
(*   SpecRegistry - the team registry written by upsert_team and read by   *)
(*                the audit and the ladder table.                          *)
(***************************************************************************)
EXTENDS Integers, Sequences, FiniteSets, TLC

VARIABLES
    teams,          \* table teams: name -> [division, opening_balance]
    games,          \* table games: id -> [game_key, home_team, away_team, start_dt]
    game_results,   \* table game_results: game_id -> scoring inputs
    bd,             \* last call of compute_points_breakdown_for_game
    out             \* last result returned by a read (audit, ladder, validator)

vars == <<teams, games, game_results, bd, out>>

(***************************************************************************)
(* Bounds and input sets                                                   *)
(***************************************************************************)
MaxScore == 3
MaxDay == 2

Scores == 0..MaxScore
FemaleTryCounts == {0, 3, 4}
ConductMarks == {0, 3, 10}
UnstrippedCounts == {0, 2, 3}
Flags == {0, 1}

EmptyTable == <<>>
NoCall == [called |-> FALSE]
NoOut == [op |-> "none"]

(***************************************************************************)
(* Points calculator                                                       *)
(***************************************************************************)
LADDER_WIN_PTS == 3
LADDER_DRAW_PTS == 2
LADDER_LOSS_PTS == 0

match_res_draw_as_win(pf, pa, is_defaulted) ==
    IF is_defaulted THEN "DEFAULT"
    ELSE IF pf >= pa THEN "W"
    ELSE "L"

match_res(pf, pa, is_defaulted) ==
    IF is_defaulted THEN "DEFAULT"
    ELSE IF pf > pa THEN "W"
    ELSE IF pf = pa THEN "D"
    ELSE "L"

match_pts_drawn_as_loss(pf, pa, is_defaulted) ==
    IF is_defaulted THEN 0
    ELSE IF pf > pa THEN LADDER_WIN_PTS
    ELSE LADDER_LOSS_PTS

match_pts(pf, pa, is_defaulted) ==
    IF is_defaulted THEN 0
    ELSE IF pf > pa THEN LADDER_WIN_PTS
    ELSE IF pf = pa THEN LADDER_DRAW_PTS
    ELSE LADDER_LOSS_PTS

close_bp_up_to_two(pf, pa, is_defaulted) ==
    IF ~is_defaulted /\ (pa - pf) <= 2 THEN 1 ELSE 0

close_bp(pf, pa, is_defaulted) ==
    IF ~is_defaulted /\ pf < pa /\ (pa - pf) \in {1, 2} THEN 1 ELSE 0

fem_bp(female_tries, is_defaulted) ==
    IF ~is_defaulted /\ female_tries >= 4 THEN 1 ELSE 0

pen(unstripped, is_defaulted) ==
    IF ~is_defaulted /\ unstripped >= 3 THEN -2 ELSE 0

side_breakdown_total_without_penalty(pf, pa, female_tries, conduct, unstripped, defaulted) ==
    LET is_defaulted == defaulted # 0
        total == match_pts(pf, pa, is_defaulted) + close_bp(pf, pa, is_defaulted)
                 + fem_bp(female_tries, is_defaulted) + conduct
    IN  [PF |-> pf,
         PA |-> pa,
         Res |-> match_res(pf, pa, is_defaulted),
         Match |-> match_pts(pf, pa, is_defaulted),
         CloseBP |-> close_bp(pf, pa, is_defaulted),
         FemTries |-> female_tries,
         FemBP |-> fem_bp(female_tries, is_defaulted),
         Conduct |-> conduct,
         Unstrip |-> unstripped,
         Pen |-> pen(unstripped, is_defaulted),
         Points |-> total,
         Defaulted |-> is_defaulted]

side_breakdown(pf, pa, female_tries, conduct, unstripped, defaulted) ==
    LET is_defaulted == defaulted # 0
        total == match_pts(pf, pa, is_defaulted) + close_bp(pf, pa, is_defaulted)
                 + fem_bp(female_tries, is_defaulted) + conduct
                 + pen(unstripped, is_defaulted)
    IN  [PF |-> pf,
         PA |-> pa,
         Res |-> match_res(pf, pa, is_defaulted),
         Match |-> match_pts(pf, pa, is_defaulted),
         CloseBP |-> close_bp(pf, pa, is_defaulted),
         FemTries |-> female_tries,
         FemBP |-> fem_bp(female_tries, is_defaulted),
         Conduct |-> conduct,
         Unstrip |-> unstripped,
         Pen |-> pen(unstripped, is_defaulted),
         Points |-> total,
         Defaulted |-> is_defaulted]

\* args is a record of the ten keyword arguments.
compute_points_breakdown_for_game(args) ==
    [HOME |-> side_breakdown(args.home_score, args.away_score,
                             args.home_female_tries, args.home_conduct,
                             args.home_unstripped, args.home_defaulted),
     AWAY |-> side_breakdown(args.away_score, args.home_score,
                             args.away_female_tries, args.away_conduct,
                             args.away_unstripped, args.away_defaulted)]

\* The values the result form passes to the live breakdown: number inputs
\* with min 0 (conduct 0..10) and two independent DEFAULTED checkboxes.
FormInputs ==
    [home_score : Scores, away_score : Scores,
     home_female_tries : FemaleTryCounts, away_female_tries : FemaleTryCounts,
     home_conduct : ConductMarks, away_conduct : ConductMarks,
     home_unstripped : UnstrippedCounts, away_unstripped : UnstrippedCounts,
     home_defaulted : Flags, away_defaulted : Flags]

\* The form holds the entered values (bd.args); rendering it computes the
\* live breakdown from them.
LiveBreakdown ==
    /\ ~bd.called
    /\ "args" \in DOMAIN bd
    /\ bd' = [called |-> TRUE, args |-> bd.args,
              ret |-> compute_points_breakdown_for_game(bd.args)]
    /\ UNCHANGED <<teams, games, game_results, out>>

InitCalc ==
    /\ teams = EmptyTable
    /\ games = EmptyTable
    /\ game_results = EmptyTable
    /\ bd \in [called : {FALSE}, args : FormInputs]
    /\ out = NoOut

NextCalc == LiveBreakdown

SpecCalc == InitCalc /\ [][NextCalc]_vars

(***************************************************************************)
(* Claims about the points calculator (SpecCalc)                           *)
(***************************************************************************)
\* The two sides of the last call: the side's own flag, the opponent's flag,
\* its raw inputs and its breakdown.
CallSides ==
    IF ~bd.called THEN {}
    ELSE {[defaulted |-> bd.args.home_defaulted # 0,
           opp_defaulted |-> bd.args.away_defaulted # 0,
           pf |-> bd.args.home_score, pa |-> bd.args.away_score,
           conduct |-> bd.args.home_conduct, b |-> bd.ret.HOME],
          [defaulted |-> bd.args.away_defaulted # 0,
           opp_defaulted |-> bd.args.home_defaulted # 0,
           pf |-> bd.args.away_score, pa |-> bd.args.home_score,
           conduct |-> bd.args.away_conduct, b |-> bd.ret.AWAY]}

\* C1: a side whose default flag is set gets result DEFAULT, match points 0,
\* no bonus, no penalty, conduct points 10 and total 10, whatever its raw
\* inputs are.
C1_DefaultedSideGetsTen ==
    \A s \in CallSides :
        s.defaulted =>
            /\ s.b.Res = "DEFAULT"
            /\ s.b.Match = 0
            /\ s.b.CloseBP = 0
            /\ s.b.FemBP = 0
            /\ s.b.Pen = 0
            /\ s.b.Conduct = 10
            /\ s.b.Points = 10

\* C7: the close-loss bonus is 1 exactly when the side is not defaulted, lost,
\* and lost by 1 or 2; otherwise it is 0.
C7_CloseLossBonus ==
    \A s \in CallSides :
        /\ s.b.CloseBP \in {0, 1}
        /\ s.b.CloseBP = 1 <=>
              (~s.defaulted /\ s.pf < s.pa /\ (s.pa - s.pf = 1 \/ s.pa - s.pf = 2))

C7_Witness ==
    \E s \in CallSides : ~s.defaulted /\ s.pa - s.pf = 2 /\ s.b.CloseBP = 1

\* C8: when neither side is defaulted the two sides' match points add up to 3
\* if the scores differ and to 4 if they are equal.
C8_MatchPointsSum ==
    (bd.called /\ bd.args.home_defaulted = 0 /\ bd.args.away_defaulted = 0) =>
        bd.ret.HOME.Match + bd.ret.AWAY.Match =
            (IF bd.args.home_score # bd.args.away_score THEN 3 ELSE 4)

C8_Witness ==
    /\ bd.called
    /\ bd.args.home_defaulted = 0 /\ bd.args.away_defaulted = 0
    /\ bd.args.home_score = bd.args.away_score
    /\ bd.ret.HOME.Match + bd.ret.AWAY.Match = 4

\* C20: a side that is not defaulted gets result W with match points 3 when
\* its score is higher than the opponent's, D with match points 2 when the
\* scores are equal, and L with match points 0 when its score is lower.
C20_ResultAndMatchPoints ==
    \A s \in CallSides :
        ~s.defaulted =>
            /\ s.pf > s.pa => (s.b.Res = "W" /\ s.b.Match = 3)
            /\ s.pf = s.pa => (s.b.Res = "D" /\ s.b.Match = 2)
            /\ s.pf < s.pa => (s.b.Res = "L" /\ s.b.Match = 0)

C20_Witness ==
    /\ \E s \in CallSides : ~s.defaulted /\ s.pf < s.pa /\ s.b.Res = "L" /\ s.b.Match = 0
    /\ \E s \in CallSides : ~s.defaulted /\ s.pf > s.pa /\ s.b.Res = "W" /\ s.b.Match = 3

\* C21: in a game with neither side defaulted, a side's conduct points are
\* its raw conduct input and its total is match points + close-loss bonus +
\* female-try bonus + conduct points + unstripped penalty; a 20-10 win with 4
\* female tries and conduct 10 totals 14 and the loser with conduct 8 totals 8.
C21_NormalGameTotal ==
    /\ \A s \in CallSides :
          (~s.defaulted /\ ~s.opp_defaulted) =>
              /\ s.b.Conduct = s.conduct
              /\ s.b.Points = s.b.Match + s.b.CloseBP + s.b.FemBP + s.b.Conduct + s.b.Pen
    /\ LET ex == compute_points_breakdown_for_game(
                     [home_score |-> 20, away_score |-> 10,
                      home_female_tries |-> 4, away_female_tries |-> 0,
                      home_conduct |-> 10, away_conduct |-> 8,
                      home_unstripped |-> 0, away_unstripped |-> 0,
                      home_defaulted |-> 0, away_defaulted |-> 0])
       IN  ex.HOME.Points = 14 /\ ex.AWAY.Points = 8

C21_Witness ==
    \E s \in CallSides :
        /\ ~s.defaulted /\ ~s.opp_defaulted
        /\ s.b.Match = 3 /\ s.b.FemBP = 1 /\ s.b.Pen = -2 /\ s.conduct = 10
        /\ s.b.Points = 12

\* C25: the female-try bonus of a side is 1 exactly when the side is not
\* defaulted, its opponent is not defaulted, and it scored 4 or more female
\* tries; otherwise it is 0.
C25_FemaleTryBonus ==
    \A s \in CallSides :
        /\ s.b.FemBP \in {0, 1}
        /\ s.b.FemBP = 1 <=> (~s.defaulted /\ ~s.opp_defaulted /\ s.b.FemTries >= 4)

\* C26: the unstripped penalty of a side is -2 exactly when the side is not
\* defaulted, its opponent is not defaulted, and it had 3 or more unstripped
\* players; otherwise it is 0.
C26_UnstrippedPenalty ==
    \A s \in CallSides :
        /\ s.b.Pen \in {-2, 0}
        /\ s.b.Pen = -2 <=> (~s.defaulted /\ ~s.opp_defaulted /\ s.b.Unstrip >= 3)

(***************************************************************************)
(* Text values                                                             *)
(*                                                                         *)
(* An ISO date-time string is the tuple of its zero-padded numeric fields: *)
(* isoformat(timespec="minutes") gives <<day, hh, mm>> and                 *)
(* isoformat(timespec="seconds") gives <<day, hh, mm, ss>>.  The separators *)
(* are the same in both, so SQLite's BINARY comparison of two such strings *)
(* is the lexicographic comparison of the tuples, a proper prefix being    *)
(* smaller.  A day is the number of the calendar date.                     *)
(***************************************************************************)
RECURSIVE text_less(_, _)
text_less(s, t) ==
    IF s = <<>> THEN t # <<>>
    ELSE IF t = <<>> THEN FALSE
    ELSE IF Head(s) < Head(t) THEN TRUE
    ELSE IF Head(s) > Head(t) THEN FALSE
    ELSE text_less(Tail(s), Tail(t))

iso_minutes(day, hh, mm) == <<day, hh, mm>>
iso_midnight_seconds(day) == <<day, 0, 0, 0>>
date_of(start_dt) == start_dt[1]

\* Team names and divisions are compared as text; the names used here are
\* listed in ascending order.
Alphabet == <<"A", "B", "C">>
TeamNames == {Alphabet[i] : i \in 1..Len(Alphabet)}
NameRank(n) == CHOOSE i \in 1..Len(Alphabet) : Alphabet[i] = n

DIVISIONS == <<"Division 1", "Division 2", "Division 3", "Golden Oldies", "Other">>
DivisionRank(d) == CHOOSE i \in 1..Len(DIVISIONS) : DIVISIONS[i] = d
MissingDivision == "-"

\* ORDER BY / sort_values: a stable sort of rows carrying their sort key
\* (a tuple of integers, compared field by field).
RECURSIVE insert_keyed(_, _)
insert_keyed(sorted, x) ==
    IF sorted = <<>> THEN <<x>>
    ELSE IF text_less(x.k, Head(sorted).k) THEN <<x>> \o sorted
    ELSE <<Head(sorted)>> \o insert_keyed(Tail(sorted), x)

RECURSIVE sort_keyed(_)
sort_keyed(s) ==
    IF s = <<>> THEN <<>>
    ELSE insert_keyed(sort_keyed(SubSeq(s, 1, Len(s) - 1)), s[Len(s)])

unkeyed(s) == [i \in 1..Len(s) |-> s[i].v]

RECURSIVE ascending(_)
ascending(S) ==
    IF S = {} THEN <<>>
    ELSE LET m == CHOOSE x \in S : \A y \in S : x <= y
         IN  <<m>> \o ascending(S \ {m})

RECURSIVE sum_col(_, _)
sum_col(rows, col) ==
    IF rows = <<>> THEN 0 ELSE Head(rows)[col] + sum_col(Tail(rows), col)

count_res(rows, results) ==
    Len(SelectSeq(rows, LAMBDA r : r.Res \in results))

(***************************************************************************)
(* Reads of the team registry and the games table                          *)
(***************************************************************************)
team_rows(ranks) ==
    [i \in 1..Len(ranks) |->
        [name |-> Alphabet[ranks[i]], division |-> teams[Alphabet[ranks[i]]].division,
         opening_balance |-> teams[Alphabet[ranks[i]]].opening_balance]]

order_by_division_name(rows) ==
    unkeyed(sort_keyed([i \in 1..Len(rows) |->
        [k |-> <<DivisionRank(rows[i].division), NameRank(rows[i].name)>>, v |-> rows[i]]]))

list_teams ==
    order_by_division_name(team_rows(ascending({NameRank(t) : t \in DOMAIN teams})))

NoDate == 0

\* get_season_start_date over a games table G: the date of MIN(start_dt).
season_start_date(G) ==
    IF DOMAIN G = {} THEN NoDate
    ELSE LET min_dt == CHOOSE s \in {G[i].start_dt : i \in DOMAIN G} :
                          \A i \in DOMAIN G : ~text_less(G[i].start_dt, s)
         IN  date_of(min_dt)

get_season_start_date == season_start_date(games)

(***************************************************************************)
(* Audit: one row per team per game with a saved result                    *)
(***************************************************************************)
\* The rows of the SQL query (CTE base, then teamsplit) over games table G.
base_ids(G, as_at_date) ==
    LET start_min == iso_midnight_seconds(season_start_date(G))
        end_max == iso_midnight_seconds(as_at_date + 1)
    IN  ascending({i \in DOMAIN G :
                     /\ ~text_less(G[i].start_dt, start_min)
                     /\ text_less(G[i].start_dt, end_max)})

\* The division every registered team would show had it been fixed at
\* registration in the first division of the list.
team_division_as_first_listed(t) ==
    IF t \in DOMAIN teams THEN DIVISIONS[1] ELSE MissingDivision

team_division(t) == IF t \in DOMAIN teams THEN teams[t].division ELSE MissingDivision
team_opening(t) == IF t \in DOMAIN teams THEN teams[t].opening_balance ELSE 0

split_row(G, i, is_home) ==
    LET g == G[i]
        has == i \in DOMAIN game_results
        gr == game_results[i]
        team == IF is_home THEN g.home_team ELSE g.away_team
    IN  [game_id |-> i,
         start_dt |-> g.start_dt,
         team |-> team,
         opponent |-> IF is_home THEN g.away_team ELSE g.home_team,
         division |-> team_division(team),
         opening |-> team_opening(team),
         has_result |-> has,
         pf |-> IF ~has THEN 0 ELSE IF is_home THEN gr.home_score ELSE gr.away_score,
         pa |-> IF ~has THEN 0 ELSE IF is_home THEN gr.away_score ELSE gr.home_score,
         female_tries |-> IF ~has THEN 0 ELSE IF is_home THEN gr.home_female_tries
                                                        ELSE gr.away_female_tries,
         conduct |-> IF ~has THEN 0 ELSE IF is_home THEN gr.home_conduct ELSE gr.away_conduct,
         unstripped |-> IF ~has THEN 0 ELSE IF is_home THEN gr.home_unstripped
                                                      ELSE gr.away_unstripped,
         defaulted |-> IF ~has THEN 0 ELSE IF is_home THEN gr.home_defaulted
                                                     ELSE gr.away_defaulted]

\* SELECT ... FROM base UNION ALL SELECT ... FROM base ORDER BY start_dt, team.
\* Rows equal in start_dt and team keep the order of the union.
split_rows(G, ids, is_home) == [j \in 1..Len(ids) |-> split_row(G, ids[j], is_home)]

order_by_start_dt_team(rows) ==
    unkeyed(sort_keyed([j \in 1..Len(rows) |->
        [k |-> rows[j].start_dt \o <<NameRank(rows[j].team)>>, v |-> rows[j]]]))

union_all(ids, G) == split_rows(G, ids, TRUE) \o split_rows(G, ids, FALSE)

teamsplit(G, as_at_date) ==
    order_by_start_dt_team(union_all(base_ids(G, as_at_date), G))

audit_source_keep_unsaved(G, as_at_date) ==
    IF season_start_date(G) = NoDate THEN <<>>
    ELSE teamsplit(G, as_at_date)

\* The rows that survive "if r[has_result] is None: continue".
audit_source(G, as_at_date) ==
    IF season_start_date(G) = NoDate THEN <<>>
    ELSE SelectSeq(teamsplit(G, as_at_date), LAMBDA r : r.has_result)

audit_row(r) ==
    LET b == compute_points_breakdown_for_game(
                 [home_score |-> r.pf, away_score |-> r.pa,
                  home_female_tries |-> r.female_tries, away_female_tries |-> 0,
                  home_conduct |-> r.conduct, away_conduct |-> 0,
                  home_unstripped |-> r.unstripped, away_unstripped |-> 0,
                  home_defaulted |-> r.defaulted, away_defaulted |-> 0]).HOME
    IN  [Date |-> date_of(r.start_dt),
         Division |-> r.division,
         Team |-> r.team,
         Opponent |-> r.opponent,
         PF |-> r.pf,
         PA |-> r.pa,
         PD |-> r.pf - r.pa,
         Res |-> b.Res,
         Match |-> b.Match,
         CloseBP |-> b.CloseBP,
         FemBP |-> b.FemBP,
         Conduct |-> b.Conduct,
         Pen |-> b.Pen,
         Points |-> b.Points,
         Opening |-> r.opening,
         Defaulted |-> b.Defaulted]

audit_rows(src) == [j \in 1..Len(src) |-> audit_row(src[j])]

audit_df(G, as_at_date) == audit_rows(audit_source(G, as_at_date))

ladder_audit_df_as_at(as_at_date) == audit_df(games, as_at_date)

(***************************************************************************)
(* Ladder table of one division                                            *)
(***************************************************************************)
\* sort_values(by=["Total", "Team"], ascending=[False, True])
opening_sort_key(r) == <<0 - r.Total, NameRank(r.Team)>>

ladder_sort_key_pd_ascending(r) ==
    <<0 - r.Total, r.PD, 0 - r.PF, NameRank(r.Team)>>

\* sort_values(by=["Total", "PD", "PF", "Team"], ascending=[False, False, False, True])
ladder_sort_key(r) ==
    <<0 - r.Total, 0 - r.PD, 0 - r.PF, NameRank(r.Team)>>

\* The base frame with every aggregate set to 0 and Total = Opening.
opening_rows(base) ==
    [j \in 1..Len(base) |->
        [Team |-> base[j].name, Opening |-> base[j].opening_balance,
         P |-> 0, W |-> 0, D |-> 0, L |-> 0, PF |-> 0, PA |-> 0, PD |-> 0,
         Points |-> 0, Total |-> base[j].opening_balance]]

ladder_row_total_without_opening(t, rs) ==
    LET pf == sum_col(rs, "PF")
        pa == sum_col(rs, "PA")
        points == sum_col(rs, "Points")
    IN  [Team |-> t.name, Opening |-> t.opening_balance,
         P |-> count_res(rs, {"W", "D", "L"}),
         W |-> count_res(rs, {"W"}),
         D |-> count_res(rs, {"D"}),
         L |-> count_res(rs, {"L"}),
         PF |-> pf, PA |-> pa, PD |-> pf - pa,
         Points |-> points, Total |-> points]

\* groupby("Team").agg(...) for one team, then PD and Total.
ladder_row(t, rs) ==
    LET pf == sum_col(rs, "PF")
        pa == sum_col(rs, "PA")
        points == sum_col(rs, "Points")
    IN  [Team |-> t.name, Opening |-> t.opening_balance,
         P |-> count_res(rs, {"W", "D", "L"}),
         W |-> count_res(rs, {"W"}),
         D |-> count_res(rs, {"D"}),
         L |-> count_res(rs, {"L"}),
         PF |-> pf, PA |-> pa, PD |-> pf - pa,
         Points |-> points, Total |-> t.opening_balance + points]

merge_inner(base, df) ==
    LET kept == SelectSeq(base, LAMBDA t : \E j \in 1..Len(df) : df[j].Team = t.name)
    IN  [j \in 1..Len(kept) |->
            ladder_row(kept[j], SelectSeq(df, LAMBDA r : r.Team = kept[j].name))]

\* base.merge(grouped, on="Team", how="left").fillna(0): a team without a
\* group gets 0 in every aggregate, which is what the empty sums give.
merge_left(base, df) ==
    [j \in 1..Len(base) |->
        ladder_row(base[j], SelectSeq(df, LAMBDA r : r.Team = base[j].name))]

sort_rows_opening(rows) ==
    unkeyed(sort_keyed([j \in 1..Len(rows) |->
        [k |-> opening_sort_key(rows[j]), v |-> rows[j]]]))

sort_rows_ladder(rows) ==
    unkeyed(sort_keyed([j \in 1..Len(rows) |->
        [k |-> ladder_sort_key(rows[j]), v |-> rows[j]]]))

\* Without the early return an empty base frame has no Opening column and
\* the assignment of Total raises.
ladder_frame_unchecked(base, df, division) ==
    IF base = <<>> THEN <<[raised |-> "KeyError"]>>
    ELSE IF df = <<>> THEN sort_rows_opening(opening_rows(base))
    ELSE IF SelectSeq(df, LAMBDA r : r.Division = division) = <<>>
         THEN sort_rows_opening(opening_rows(base))
    ELSE sort_rows_ladder(merge_left(base, SelectSeq(df, LAMBDA r : r.Division = division)))

ladder_frame(base, df, division) ==
    IF base = <<>> THEN <<>>
    ELSE IF df = <<>> THEN sort_rows_opening(opening_rows(base))
    ELSE IF SelectSeq(df, LAMBDA r : r.Division = division) = <<>>
         THEN sort_rows_opening(opening_rows(base))
    ELSE sort_rows_ladder(merge_left(base, SelectSeq(df, LAMBDA r : r.Division = division)))

ladder_table(G, as_at_date, division) ==
    ladder_frame(SelectSeq(list_teams, LAMBDA r : r.division = division),
                 audit_df(G, as_at_date), division)

\* The rows of an earlier call still sitting in the list the audit appends to.
ladder_table_df_keeping_rows(as_at_date, division) ==
    ladder_frame(SelectSeq(list_teams, LAMBDA r : r.division = division),
                 IF out.op = "none" THEN audit_df(games, as_at_date)
                 ELSE audit_df(games, as_at_date) \o audit_df(games, as_at_date),
                 division)

ladder_table_df_as_at(as_at_date, division) == ladder_table(games, as_at_date, division)

(***************************************************************************)
(* Validator: warnings about the games of a date or of the season so far   *)
(***************************************************************************)
\* A warning is the tuple of the pieces its f-string is built from.
MissingDivisionText == "Missing division for team: "
MissingResultText == "Missing result: "
InvalidFlagsText == "Invalid DEFAULTED flags (both marked): "
NoGamesText == "No games found (cannot determine season start)."

game_local_date(g) == date_of(g.start_dt)

\* "" when the team has no row in the registry.
get_team_division(name) == IF name \in DOMAIN teams THEN teams[name].division ELSE ""

\* The row of a game's result in a one-element tuple, <<>> for None.
get_game_result(game_id) ==
    IF game_id \in DOMAIN game_results THEN <<game_results[game_id]>> ELSE <<>>

\* The ids of the games, ORDER BY start_dt ASC.
get_games ==
    LET ids == ascending(DOMAIN games)
    IN  unkeyed(sort_keyed([j \in 1..Len(ids) |->
            [k |-> games[ids[j]].start_dt, v |-> ids[j]]]))

missing_division_warnings_home_only(g) ==
    IF g.home_team # "" /\ get_team_division(g.home_team) = ""
    THEN <<(<<MissingDivisionText, g.home_team>>)>> ELSE <<>>

\* for t in (home_team, away_team): if t and not get_team_division(t)
missing_division_warnings(g) ==
    LET missing == SelectSeq(<<g.home_team, g.away_team>>,
                             LAMBDA t : t # "" /\ get_team_division(t) = "")
    IN  [j \in 1..Len(missing) |-> <<MissingDivisionText, missing[j]>>]

invalid_flags_warnings_either(g, gr, suffix) ==
    IF gr.home_defaulted # 0 \/ gr.away_defaulted # 0
    THEN <<(<<InvalidFlagsText, g.home_team, g.away_team>> \o suffix)>>
    ELSE <<>>

\* if gr["home_defaulted"] and gr["away_defaulted"]
invalid_flags_warnings(g, gr, suffix) ==
    IF gr.home_defaulted # 0 /\ gr.away_defaulted # 0
    THEN <<(<<InvalidFlagsText, g.home_team, g.away_team>> \o suffix)>>
    ELSE <<>>

\* The body of the loop over the games; suffix is the "(date)" the as-at
\* validator appends to its messages (<<>> for the validator of one date).
game_warnings(i, suffix) ==
    missing_division_warnings(games[i])
    \o (IF get_game_result(i) = <<>>
        THEN <<(<<MissingResultText, games[i].home_team, games[i].away_team>> \o suffix)>>
        ELSE invalid_flags_warnings(games[i], get_game_result(i)[1], suffix))

RECURSIVE warnings_of(_, _)
warnings_of(ids, dated) ==
    IF ids = <<>> THEN <<>>
    ELSE game_warnings(Head(ids), IF dated THEN <<game_local_date(games[Head(ids)])>>
                                  ELSE <<>>)
         \o warnings_of(Tail(ids), dated)

ladder_validation_warnings_for_date(d) ==
    warnings_of(SelectSeq(get_games, LAMBDA i : game_local_date(games[i]) = d), FALSE)

games_as_at_text_window(as_at_date) == base_ids(games, as_at_date)

\* [g for g in get_games() if season_start <= game_local_date(g) <= as_at_date]
games_as_at(as_at_date) ==
    SelectSeq(get_games, LAMBDA i : /\ get_season_start_date <= game_local_date(games[i])
                                    /\ game_local_date(games[i]) <= as_at_date)

ladder_validation_warnings_as_at(as_at_date) ==
    IF get_season_start_date = NoDate THEN <<(<<NoGamesText>>)>>
    ELSE warnings_of(games_as_at(as_at_date), TRUE)

(***************************************************************************)
(* SpecLadder: a database the program can hold, read by the ladder tab     *)
(***************************************************************************)
Days == 1..MaxDay
StartTimes == {<<0, 0>>, <<10, 0>>}
StartDts == {iso_minutes(d, t[1], t[2]) : d \in Days, t \in StartTimes}
ModelDivisions == {DIVISIONS[1], DIVISIONS[2]}
GameKeys == <<"g1", "g2">>
\* The draw: game g1 is A v B, game g2 is B v C.
Pairings == <<(<<"A", "B">>), (<<"B", "C">>)>>

\* Registry rows each team may have (a team may also be unregistered).
TeamChoices ==
    [A |-> {[division |-> DIVISIONS[1], opening_balance |-> 5]},
     B |-> {[division |-> DIVISIONS[1], opening_balance |-> 0],
            [division |-> DIVISIONS[2], opening_balance |-> 0]},
     C |-> {[division |-> DIVISIONS[1], opening_balance |-> 0]}]

Registries ==
    UNION {{r \in [S -> UNION {TeamChoices[t] : t \in S}] :
               \A t \in S : r[t] \in TeamChoices[t]} :
           S \in {T \in SUBSET TeamNames : {"A", "B"} \subseteq T}}

FixtureRows(i) ==
    {[game_key |-> GameKeys[i], home_team |-> Pairings[i][1],
      away_team |-> Pairings[i][2], start_dt |-> s] : s \in StartDts}

RECURSIVE FixtureTables(_)
FixtureTables(n) ==
    IF n = 0 THEN {<<>>}
    ELSE FixtureTables(n - 1)
         \cup {Append(G, r) : G \in {T \in FixtureTables(n - 1) : Len(T) = n - 1},
                              r \in FixtureRows(n)}

SavedResults ==
    {[home_score |-> sc[1], away_score |-> sc[2],
      home_female_tries |-> 0, away_female_tries |-> 0,
      home_conduct |-> 10, away_conduct |-> 7,
      home_unstripped |-> 0, away_unstripped |-> 0,
      home_defaulted |-> f[1], away_defaulted |-> f[2]] :
        sc \in {<<0, 0>>, <<0, 3>>}, f \in {<<0, 0>>, <<1, 0>>, <<0, 1>>}}

ResultTables(G) == UNION {[S -> SavedResults] : S \in SUBSET DOMAIN G}

\* out.src[j] is the game_id column of the query row that out.df[j] was
\* computed from (the returned frame does not carry it).
game_ids(src) == [j \in 1..Len(src) |-> src[j].game_id]

ReadAudit(as_at_date) ==
    /\ out' = [op |-> "audit", as_at_date |-> as_at_date,
               df |-> ladder_audit_df_as_at(as_at_date),
               src |-> game_ids(audit_source(games, as_at_date))]
    /\ UNCHANGED <<teams, games, game_results, bd>>

ReadLadder(as_at_date, division) ==
    /\ out' = [op |-> "ladder", as_at_date |-> as_at_date, division |-> division,
               df |-> ladder_table_df_as_at(as_at_date, division)]
    /\ UNCHANGED <<teams, games, game_results, bd>>

InitLadder ==
    /\ teams \in Registries
    /\ games \in FixtureTables(Len(GameKeys))
    /\ game_results \in ResultTables(games)
    /\ bd = NoCall
    /\ out = NoOut

NextLadder ==
    \/ \E d \in Days : ReadAudit(d)
    \/ \E d \in Days, v \in ModelDivisions : ReadLadder(d, v)

SpecLadder == InitLadder /\ [][NextLadder]_vars

(***************************************************************************)
(* Claims about the audit and the ladder table (SpecLadder)                *)
(***************************************************************************)
AuditRead == out.op = "audit"
LadderRead == out.op = "ladder"

\* Row j of the audit read is the row of game out.src[j] for its home side.
IsHomeRow(j) == out.df[j].Team = games[out.src[j]].home_team

RowsOfGame(i) == {j \in 1..Len(out.src) : out.src[j] = i}

\* The window the ladder is meant to cover: dates from the season start to
\* the as-at date, both inclusive.
InDateWindow(G, i, as_at_date) ==
    /\ season_start_date(G) # NoDate
    /\ season_start_date(G) <= date_of(G[i].start_dt)
    /\ date_of(G[i].start_dt) <= as_at_date

\* C2: when exactly one default flag of a stored result is set, the audit row
\* of the other side is a WIN with match points 3, no bonus, no penalty,
\* conduct 10 and total 13, whatever was recorded.
C2_OpponentOfDefaultGetsThirteen ==
    AuditRead =>
        \A j \in 1..Len(out.df) :
            LET gr == game_results[out.src[j]]
                own == IF IsHomeRow(j) THEN gr.home_defaulted ELSE gr.away_defaulted
                opp == IF IsHomeRow(j) THEN gr.away_defaulted ELSE gr.home_defaulted
            IN  (own = 0 /\ opp = 1) =>
                    /\ out.df[j].Res = "W"
                    /\ out.df[j].Match = 3
                    /\ out.df[j].CloseBP = 0
                    /\ out.df[j].FemBP = 0
                    /\ out.df[j].Pen = 0
                    /\ out.df[j].Conduct = 10
                    /\ out.df[j].Points = 13

WithoutGame(G, i) == [k \in DOMAIN G \ {i} |-> G[k]]

LadderFigures(df) ==
    [j \in 1..Len(df) |-> <<df[j].Team, df[j].P, df[j].PF, df[j].PA, df[j].Total>>]

\* A fixture without a saved result, dated inside the window, whose removal
\* leaves the season start where it is.
UnsavedInWindow(i) ==
    /\ i \in DOMAIN games
    /\ i \notin DOMAIN game_results
    /\ InDateWindow(games, i, out.as_at_date)
    /\ season_start_date(WithoutGame(games, i)) = season_start_date(games)

\* C4: a fixture without a saved result yields no audit row, and the ladder
\* of every division is the same with and without such a fixture (played,
\* points for, points against and total of every row).
C4_NoResultNoContribution ==
    /\ AuditRead => \A i \in DOMAIN games \ DOMAIN game_results : RowsOfGame(i) = {}
    /\ LadderRead =>
          \A i \in DOMAIN games :
              UnsavedInWindow(i) =>
                  LadderFigures(ladder_table(WithoutGame(games, i), out.as_at_date,
                                             out.division))
                      = LadderFigures(out.df)

C4_Witness ==
    /\ LadderRead
    /\ \E i \in DOMAIN games :
          /\ UnsavedInWindow(i)
          /\ \E j \in 1..Len(out.df) :
                /\ out.df[j].Team \in {games[i].home_team, games[i].away_team}
                /\ out.df[j].P = 1

StrictlyAhead(a, b) ==
    \/ a.Total > b.Total
    \/ a.Total = b.Total /\ a.PD > b.PD
    \/ a.Total = b.Total /\ a.PD = b.PD /\ a.PF > b.PF
    \/ a.Total = b.Total /\ a.PD = b.PD /\ a.PF = b.PF
         /\ NameRank(a.Team) < NameRank(b.Team)

\* C5: the ladder is sorted by total, then points difference, then points for
\* (all descending), then team name ascending, each row strictly ahead of the
\* next, on every return path.
C5_LadderStrictlyOrdered ==
    LadderRead =>
        \A j \in 1..(Len(out.df) - 1) : StrictlyAhead(out.df[j], out.df[j + 1])

\* Two teams level on total, the one later in the alphabet ahead on points
\* difference.
C5_Witness ==
    /\ LadderRead
    /\ \E j \in 1..(Len(out.df) - 1) :
          /\ out.df[j].Total = out.df[j + 1].Total
          /\ out.df[j].PD > out.df[j + 1].PD
          /\ NameRank(out.df[j].Team) > NameRank(out.df[j + 1].Team)

TeamsOfDivision(division) == {t \in DOMAIN teams : teams[t].division = division}

HasContribution(t, as_at_date) ==
    \E j \in 1..Len(ladder_audit_df_as_at(as_at_date)) :
        ladder_audit_df_as_at(as_at_date)[j].Team = t

\* C6: the ladder has exactly one row per team registered in the division and
\* none for other teams; a team without a contribution in the window has
\* zeros everywhere and total = opening balance.
C6_OneRowPerDivisionTeam ==
    LadderRead =>
        /\ Len(out.df) = Cardinality(TeamsOfDivision(out.division))
        /\ {out.df[j].Team : j \in 1..Len(out.df)} = TeamsOfDivision(out.division)
        /\ \A j \in 1..Len(out.df) :
              ~HasContribution(out.df[j].Team, out.as_at_date) =>
                  /\ out.df[j].P = 0 /\ out.df[j].W = 0
                  /\ out.df[j].D = 0 /\ out.df[j].L = 0
                  /\ out.df[j].PF = 0 /\ out.df[j].PA = 0
                  /\ out.df[j].Points = 0
                  /\ out.df[j].Total = teams[out.df[j].Team].opening_balance

\* A ladder with a team that has played next to a team that has not and
\* carries an opening balance of 5.
C6_Witness ==
    /\ LadderRead
    /\ \E j, k \in 1..Len(out.df) :
          /\ out.df[j].P = 1
          /\ ~HasContribution(out.df[k].Team, out.as_at_date)
          /\ out.df[k].P = 0
          /\ out.df[k].Total = 5
    /\ \E t \in DOMAIN teams : teams[t].division # out.division

C10_TwoRowsPerGameInWindow ==
    AuditRead =>
        \A i \in DOMAIN game_results :
            /\ InDateWindow(games, i, out.as_at_date) =>
                  /\ Cardinality(RowsOfGame(i)) = 2
                  /\ \E j \in RowsOfGame(i) :
                        /\ out.df[j].Team = games[i].home_team
                        /\ out.df[j].PF = game_results[i].home_score
                        /\ out.df[j].PA = game_results[i].away_score
                  /\ \E j \in RowsOfGame(i) :
                        /\ out.df[j].Team = games[i].away_team
                        /\ out.df[j].PF = game_results[i].away_score
                        /\ out.df[j].PA = game_results[i].home_score
            /\ date_of(games[i].start_dt) > out.as_at_date => RowsOfGame(i) = {}

\* C13: the ladder of a division that no registered team is assigned to is
\* empty, whatever games and results the database holds.
C13_EmptyDivisionGivesEmptyLadder ==
    (LadderRead /\ \A t \in DOMAIN teams : teams[t].division # out.division)
        => out.df = <<>>

C13_Witness ==
    /\ LadderRead
    /\ \A t \in DOMAIN teams : teams[t].division # out.division
    /\ audit_df(games, out.as_at_date) # <<>>
    /\ out.df = <<>>

\* The audit rows of team t in the window of the ladder read.
TeamAuditRows(t) == SelectSeq(audit_df(games, out.as_at_date), LAMBDA r : r.Team = t)

\* C22: in a ladder row, P is the number of the team's audit rows whose
\* result is W, D, L or DEFAULT: a forfeited game counts as played.
C22_PlayedCountsForfeits ==
    LadderRead =>
        \A j \in 1..Len(out.df) :
            out.df[j].P = count_res(TeamAuditRows(out.df[j].Team), {"W", "D", "L", "DEFAULT"})

\* C23: in a ladder row, W counts the team's W rows, D its D rows and L its L
\* rows plus its DEFAULT rows, and P = W + D + L.
C23_ForfeitCountsAsLoss ==
    LadderRead =>
        \A j \in 1..Len(out.df) :
            /\ out.df[j].W = count_res(TeamAuditRows(out.df[j].Team), {"W"})
            /\ out.df[j].D = count_res(TeamAuditRows(out.df[j].Team), {"D"})
            /\ out.df[j].L = count_res(TeamAuditRows(out.df[j].Team), {"L", "DEFAULT"})
            /\ out.df[j].P = out.df[j].W + out.df[j].D + out.df[j].L

\* C24: in a ladder row, PF and PA are the sums of PF and PA over the team's
\* audit rows, Points the sum of their Points, PD = PF - PA and
\* Total = the team's opening balance in the registry + Points.
C24_LadderSums ==
    LadderRead =>
        \A j \in 1..Len(out.df) :
            LET rs == TeamAuditRows(out.df[j].Team)
            IN  /\ out.df[j].PF = sum_col(rs, "PF")
                /\ out.df[j].PA = sum_col(rs, "PA")
                /\ out.df[j].Points = sum_col(rs, "Points")
                /\ out.df[j].PD = out.df[j].PF - out.df[j].PA
                /\ out.df[j].Opening = teams[out.df[j].Team].opening_balance
                /\ out.df[j].Total = teams[out.df[j].Team].opening_balance + out.df[j].Points

C24_Witness ==
    /\ LadderRead
    /\ \E j \in 1..Len(out.df) :
          /\ Len(TeamAuditRows(out.df[j].Team)) = 2
          /\ out.df[j].PA = 3
          /\ out.df[j].Points > 0

\* C29: for one as-at date the validator and the audit agree: a game dated
\* from the season start to the as-at date either has the "Missing result"
\* warning and no audit row, or has exactly two audit rows and no such
\* warning.
C29_ValidatorAndAuditAgree ==
    AuditRead =>
        \A i \in DOMAIN games :
            InDateWindow(games, i, out.as_at_date) =>
                LET ws == ladder_validation_warnings_as_at(out.as_at_date)
                    warned == \E k \in 1..Len(ws) :
                                 ws[k] = <<MissingResultText, games[i].home_team,
                                           games[i].away_team, game_local_date(games[i])>>
                IN  \/ warned /\ RowsOfGame(i) = {}
                    \/ ~warned /\ Cardinality(RowsOfGame(i)) = 2

(***************************************************************************)
(* Spec: the write operations, from the empty database                     *)
(***************************************************************************)
GameIds == 1..Len(GameKeys)

\* Arguments passed to upsert_team ("" is an empty name or division).
TeamNameArgs == {"A", "B", ""}
DivisionArgs == ModelDivisions \cup {""}
OpeningArgs == {0, 5}

\* Rows of an imported games CSV (date + start_time columns, one row a file).
CsvRows ==
    {r \in FixtureRows(1) \cup FixtureRows(2) :
        r.start_dt \in {iso_minutes(1, 10, 0), iso_minutes(MaxDay, 0, 0)}}

\* Keyword arguments passed to upsert_game_result.
UpsertArgs ==
    {[home_score |-> sc[1], away_score |-> sc[2],
      home_female_tries |-> 0, away_female_tries |-> 0,
      home_conduct |-> 10, away_conduct |-> 7,
      home_unstripped |-> 0, away_unstripped |-> 0,
      home_defaulted |-> hd, away_defaulted |-> ad] :
        sc \in {<<0, 0>>, <<0, 3>>}, hd \in Flags, ad \in Flags}

\* str.strip(): the text without its leading and trailing blanks.
RECURSIVE lstrip(_), rstrip(_)
lstrip(s) ==
    IF Len(s) > 0 /\ SubSeq(s, 1, 1) = " " THEN lstrip(SubSeq(s, 2, Len(s))) ELSE s

rstrip(s) ==
    IF Len(s) > 0 /\ SubSeq(s, Len(s), Len(s)) = " "
    THEN rstrip(SubSeq(s, 1, Len(s) - 1)) ELSE s

strip(s) == rstrip(lstrip(s))

upsert_team_unstripped(name, division, opening_balance) ==
    /\ IF name = "" \/ division = ""
       THEN UNCHANGED teams
       ELSE teams' = [t \in DOMAIN teams \cup {name} |->
                        IF t = name
                        THEN [division |-> division, opening_balance |-> opening_balance]
                        ELSE teams[t]]
    /\ UNCHANGED <<games, game_results, bd, out>>

\* Both texts are stripped first; nothing is written when either is then
\* empty. INSERT ... ON CONFLICT(name) DO UPDATE on the UNIQUE name column.
upsert_team(name, division, opening_balance) ==
    LET n == strip(name)
        v == strip(division)
    IN  /\ IF n = "" \/ v = ""
           THEN UNCHANGED teams
           ELSE teams' = [t \in DOMAIN teams \cup {n} |->
                            IF t = n
                            THEN [division |-> v, opening_balance |-> opening_balance]
                            ELSE teams[t]]
        /\ UNCHANGED <<games, game_results, bd, out>>

\* One row of import_games_csv: UPDATE the game with that game_key, else
\* INSERT it under the next autoincrement id.
import_games_csv(row) ==
    /\ IF \E i \in DOMAIN games : games[i].game_key = row.game_key
       THEN games' = [i \in DOMAIN games |->
                        IF games[i].game_key = row.game_key THEN row ELSE games[i]]
       ELSE games' = [i \in DOMAIN games \cup {Cardinality(DOMAIN games) + 1} |->
                        IF i \in DOMAIN games THEN games[i] ELSE row]
    /\ UNCHANGED <<teams, game_results, bd, out>>

\* Rows of a CSV handed to replace_games_csv: the two fixtures at 10:00 on
\* day 1, a blank row (skipped by the function) and a row whose date does
\* not parse (<<>>).
BlankCsvRow == [game_key |-> "", home_team |-> "", away_team |-> "", start_dt |-> <<>>]
UnparsableCsvRow ==
    [game_key |-> GameKeys[2], home_team |-> Pairings[2][1],
     away_team |-> Pairings[2][2], start_dt |-> <<>>]
ReplaceCsvRows ==
    {r \in CsvRows : r.start_dt = iso_minutes(1, 10, 0)} \cup {BlankCsvRow, UnparsableCsvRow}

MaxCsvLen == 2
CsvFiles == UNION {[1..n -> ReplaceCsvRows] : n \in 0..MaxCsvLen}

\* The rows that pass "if not (game_key and home and away and field): continue".
new_games(file) ==
    SelectSeq(file, LAMBDA r : r.game_key # "" /\ r.home_team # "" /\ r.away_team # "")

\* The loop raises ValueError on a repeated game_key or a date that does
\* not parse; an empty list of new games raises after the loop.
rows_raise(rows) ==
    \/ \E j, k \in 1..Len(rows) : j < k /\ rows[j].game_key = rows[k].game_key
    \/ \E j \in 1..Len(rows) : rows[j].start_dt = <<>>
    \/ rows = <<>>

replace_raises(file) == rows_raise(new_games(file))

replace_games_csv_deleting_first(file) ==
    /\ IF replace_raises(file)
       THEN /\ games' = EmptyTable
            /\ game_results' = EmptyTable
            /\ out' = [op |-> "replace_games_csv", raised |-> "ValueError"]
       ELSE /\ games' = new_games(file)
            /\ game_results' = EmptyTable
            /\ out' = [op |-> "replace_games_csv", imported |-> Len(new_games(file))]
    /\ UNCHANGED <<teams, bd>>

\* The list of new games is built before anything is deleted; then
\* game_results and games are emptied, the id counter is reset and the new
\* games are inserted in the order of the file. Returns the number imported.
replace_games_csv(file) ==
    /\ IF replace_raises(file)
       THEN /\ UNCHANGED <<games, game_results>>
            /\ out' = [op |-> "replace_games_csv", raised |-> "ValueError"]
       ELSE /\ games' = new_games(file)
            /\ game_results' = EmptyTable
            /\ out' = [op |-> "replace_games_csv", imported |-> Len(new_games(file))]
    /\ UNCHANGED <<teams, bd>>

\* ON CONFLICT(game_id) DO UPDATE SET without the two default flags.
upsert_game_result_keeping_flags(game_id, args) ==
    /\ IF game_id \in DOMAIN games
       THEN game_results' = [i \in DOMAIN game_results \cup {game_id} |->
                               IF i # game_id THEN game_results[i]
                               ELSE IF i \in DOMAIN game_results
                               THEN [args EXCEPT
                                       !.home_defaulted = game_results[i].home_defaulted,
                                       !.away_defaulted = game_results[i].away_defaulted]
                               ELSE [args EXCEPT !.home_defaulted = IF @ # 0 THEN 1 ELSE 0,
                                                 !.away_defaulted = IF @ # 0 THEN 1 ELSE 0]]
       ELSE UNCHANGED game_results
    /\ UNCHANGED <<teams, games, bd, out>>

\* INSERT ... ON CONFLICT(game_id) DO UPDATE; the foreign key on game_id
\* makes the statement fail for a game that does not exist.
upsert_game_result(game_id, args) ==
    /\ IF game_id \in DOMAIN games
       THEN game_results' = [i \in DOMAIN game_results \cup {game_id} |->
                               IF i = game_id
                               THEN [args EXCEPT !.home_defaulted = IF @ # 0 THEN 1 ELSE 0,
                                                 !.away_defaulted = IF @ # 0 THEN 1 ELSE 0]
                               ELSE game_results[i]]
       ELSE UNCHANGED game_results
    /\ UNCHANGED <<teams, games, bd, out>>

Init ==
    /\ teams = EmptyTable
    /\ games = EmptyTable
    /\ game_results = EmptyTable
    /\ bd = NoCall
    /\ out = NoOut

Next ==
    \/ \E n \in TeamNameArgs, d \in DivisionArgs, o \in OpeningArgs : upsert_team(n, d, o)
    \/ \E row \in CsvRows : import_games_csv(row)
    \/ \E i \in GameIds, args \in UpsertArgs : upsert_game_result(i, args)

Spec == Init /\ [][Next]_vars

(***************************************************************************)
(* Claims about the writes (Spec)                                          *)
(***************************************************************************)
BothDefaulted == {a \in UpsertArgs : a.home_defaulted = 1 /\ a.away_defaulted = 1}

\* C3: an upsert with both default flags set is rejected and writes nothing:
\* the game_results table is the same before and after the call.
C3_BothDefaultedWritesNothing ==
    [][\A i \in GameIds, a \in BothDefaulted :
          upsert_game_result(i, a) => game_results' = game_results]_vars

\* C12: every upsert the function accepts leaves exactly one result for its
\* game, equal field for field to the arguments of that upsert, and leaves the
\* results of the other games as they were; so after any interleaving of
\* upserts each game holds the arguments of the last upsert made for it.
C12_LastUpsertWins ==
    [][\A i \in DOMAIN games, a \in UpsertArgs :
          upsert_game_result(i, a) =>
              /\ DOMAIN game_results' = DOMAIN game_results \cup {i}
              /\ game_results'[i] = a
              /\ \A j \in DOMAIN game_results \ {i} : game_results'[j] = game_results[j]]_vars

C12_Witness ==
    /\ DOMAIN game_results = DOMAIN games
    /\ Cardinality(DOMAIN game_results) = 2
    /\ game_results[1] # game_results[2]

(***************************************************************************)
(* SpecDraw: the draw imported, replaced and scored, and the ladder read   *)
(***************************************************************************)
DrawTeamArgs == {[name |-> "A", division |-> DIVISIONS[1], opening_balance |-> 5]}

DrawResultArgs ==
    {a \in UpsertArgs : /\ a.home_defaulted = 0
                        /\ <<a.home_score, a.away_score, a.away_defaulted>>
                               \in {<<0, 3, 0>>, <<0, 0, 1>>}}

InitDraw ==
    /\ teams = EmptyTable
    /\ games = EmptyTable
    /\ game_results = EmptyTable
    /\ bd = NoCall
    /\ out = NoOut

NextDraw ==
    \/ \E a \in DrawTeamArgs : upsert_team(a.name, a.division, a.opening_balance)
    \/ \E row \in CsvRows : import_games_csv(row)
    \/ \E file \in CsvFiles : replace_games_csv(file)
    \/ \E i \in GameIds, args \in DrawResultArgs : upsert_game_result(i, args)
    \/ \E d \in Days : ReadLadder(d, DIVISIONS[1])

SpecDraw == InitDraw /\ [][NextDraw]_vars

ReplaceStep(file) == out'.op = "replace_games_csv" /\ replace_games_csv(file)

\* What the file has to be for the replace to go through: at least one row
\* with a key and both teams, no key twice among those rows, every date
\* parsed.
UsableRows(file) ==
    SelectSeq(file, LAMBDA r : r.game_key # "" /\ r.home_team # "" /\ r.away_team # "")

ValidRows(rows) ==
    /\ rows # <<>>
    /\ \A j, k \in 1..Len(rows) : j # k => rows[j].game_key # rows[k].game_key
    /\ \A j \in 1..Len(rows) : rows[j].start_dt # <<>>

ValidCsvFile(file) == ValidRows(UsableRows(file))

\* C28: after every import, replace-import and result upsert each stored
\* result belongs to a game of the games table. A replace of a valid file
\* leaves no result, the games of the file and the team registry as it was,
\* and a ladder read while no result is stored has P = 0 and Total = Opening
\* in every row; a replace that fails validation changes none of the three
\* tables.
C28_ResultsBelongToGames ==
    [][/\ DOMAIN game_results' \subseteq DOMAIN games'
       /\ \A file \in CsvFiles :
             ReplaceStep(file) =>
                 IF ValidCsvFile(file)
                 THEN /\ game_results' = EmptyTable
                      /\ games' = UsableRows(file)
                      /\ teams' = teams
                 ELSE UNCHANGED <<teams, games, game_results>>
       /\ \A d \in Days :
             (out'.op = "ladder" /\ out' # out /\ game_results = EmptyTable
                  /\ ReadLadder(d, DIVISIONS[1])) =>
                 \A j \in 1..Len(out'.df) :
                     out'.df[j].P = 0 /\ out'.df[j].Total = out'.df[j].Opening]_vars

\* A replace has gone through in a database with a registered team.
C28_Witness ==
    /\ out.op = "replace_games_csv"
    /\ "imported" \in DOMAIN out
    /\ out.imported = Len(games)
    /\ game_results = EmptyTable
    /\ \E t \in DOMAIN teams : teams[t].opening_balance = 5

(***************************************************************************)
(* SpecSeason: one fixture's season, written and read in any order         *)
(***************************************************************************)
\* Arguments of upsert_team: team A is registered in the first division,
\* team B in either division with either opening balance. Each team is
\* without a division until its first upsert_team.
SeasonTeamArgs ==
    {[name |-> "A", division |-> DIVISIONS[1], opening_balance |-> 0]}
    \cup [name : {"B"}, division : ModelDivisions, opening_balance : OpeningArgs]

\* The fixture g1 (A v B), imported at 10:00 on day 1 or at 00:00 on the last
\* day.
SeasonCsvRows == {r \in CsvRows : r.game_key = GameKeys[1]}

\* Results as upsert_game_result takes them (it checks none of its values):
\* a regular one, one with one flag set, one with both flags set, one with a
\* conduct mark above 10 and one with a negative count.
SeasonResultArgs ==
    LET regular == [home_score |-> 0, away_score |-> 3,
                    home_female_tries |-> 0, away_female_tries |-> 0,
                    home_conduct |-> 10, away_conduct |-> 7,
                    home_unstripped |-> 0, away_unstripped |-> 0,
                    home_defaulted |-> 0, away_defaulted |-> 0]
    IN  {regular,
         [regular EXCEPT !.away_defaulted = 1],
         [regular EXCEPT !.home_defaulted = 1, !.away_defaulted = 1],
         [regular EXCEPT !.home_conduct = 11],
         [regular EXCEPT !.away_unstripped = -1]}

Validate_registering_teams(as_at_date) ==
    /\ out' = [op |-> "validate", as_at_date |-> as_at_date,
               warnings |-> ladder_validation_warnings_as_at(as_at_date)]
    /\ teams' = [t \in DOMAIN teams \cup {games[i].home_team : i \in DOMAIN games} |->
                   IF t \in DOMAIN teams THEN teams[t]
                   ELSE [division |-> MissingDivision, opening_balance |-> 0]]
    /\ UNCHANGED <<games, game_results, bd>>

\* The ladder tab lists the warnings of the season up to the selected date.
Validate(as_at_date) ==
    /\ out' = [op |-> "validate", as_at_date |-> as_at_date,
               warnings |-> ladder_validation_warnings_as_at(as_at_date)]
    /\ UNCHANGED <<teams, games, game_results, bd>>

ValidateDate(d) ==
    /\ out' = [op |-> "validate_date", d |-> d,
               warnings |-> ladder_validation_warnings_for_date(d)]
    /\ UNCHANGED <<teams, games, game_results, bd>>

InitSeason ==
    /\ teams = EmptyTable
    /\ games = EmptyTable
    /\ game_results = EmptyTable
    /\ bd = NoCall
    /\ out = NoOut

NextSeason ==
    \/ \E a \in SeasonTeamArgs : upsert_team(a.name, a.division, a.opening_balance)
    \/ \E row \in SeasonCsvRows : import_games_csv(row)
    \/ \E i \in GameIds, args \in SeasonResultArgs : upsert_game_result(i, args)
    \/ \E d \in Days : ReadAudit(d)
    \/ \E d \in Days, v \in ModelDivisions : ReadLadder(d, v)
    \/ \E d \in Days : Validate(d)
    \/ \E d \in Days : ValidateDate(d)

SpecSeason == InitSeason /\ [][NextSeason]_vars

(***************************************************************************)
(* Claims about a season that is written and read (SpecSeason)             *)
(***************************************************************************)
Range(ws) == {ws[k] : k \in 1..Len(ws)}

\* Steps in which a read hands back a result other than the one held.
AuditStep(d) == out' # out /\ out'.op = "audit" /\ ReadAudit(d)
LadderStep(d, v) == out' # out /\ out'.op = "ladder" /\ ReadLadder(d, v)
ValidateStep(d) == out' # out /\ out'.op = "validate" /\ Validate(d)
ValidateDateStep(d) == out' # out /\ out'.op = "validate_date" /\ ValidateDate(d)
UpsertResultStep(i, a) == game_results' # game_results /\ upsert_game_result(i, a)

HasResult(i) == i \in DOMAIN game_results

\* The rows the audit of the current tables has for team t.
AuditRowsOf(t, as_at_date) == SelectSeq(audit_df(games, as_at_date), LAMBDA r : r.Team = t)

\* C11: an audit read shows, on every row, the division and opening balance
\* the team has in the registry at the time of the read, also for games saved
\* before the team was moved; a ladder read of a division has a row for every
\* team now in it, with the figures of all that team's audit rows, and no
\* row for a team that is now in another division.
C11_ReadsUseCurrentRegistry ==
    [][/\ \A d \in Days :
             AuditStep(d) =>
                 \A j \in 1..Len(out'.df) :
                     LET t == out'.df[j].Team
                     IN  /\ out'.df[j].Division =
                               (IF t \in DOMAIN teams THEN teams[t].division
                                ELSE MissingDivision)
                         /\ out'.df[j].Opening =
                               (IF t \in DOMAIN teams THEN teams[t].opening_balance ELSE 0)
       /\ \A d \in Days, v \in ModelDivisions :
             LadderStep(d, v) =>
                 \A t \in DOMAIN teams :
                     IF teams[t].division = v
                     THEN \E j \in 1..Len(out'.df) :
                             /\ out'.df[j].Team = t
                             /\ out'.df[j].Opening = teams[t].opening_balance
                             /\ out'.df[j].PF = sum_col(AuditRowsOf(t, d), "PF")
                             /\ out'.df[j].PA = sum_col(AuditRowsOf(t, d), "PA")
                             /\ out'.df[j].Points = sum_col(AuditRowsOf(t, d), "Points")
                             /\ out'.df[j].P = count_res(AuditRowsOf(t, d), {"W", "D", "L"})
                     ELSE \A j \in 1..Len(out'.df) : out'.df[j].Team # t]_vars

\* An audit read showed a team's game under one division and the team has
\* since been moved to another: the next read is the one the claim is about.
C11_Witness ==
    /\ AuditRead
    /\ \E j \in 1..Len(out.df) :
          /\ out.df[j].Team \in DOMAIN teams
          /\ out.df[j].Division \in ModelDivisions
          /\ out.df[j].Division # teams[out.df[j].Team].division
          /\ AuditRowsOf(out.df[j].Team, out.as_at_date) # <<>>

ReadStep ==
    \/ \E d \in Days : AuditStep(d)
    \/ \E d \in Days, v \in ModelDivisions : LadderStep(d, v)
    \/ \E d \in Days : ValidateStep(d)
    \/ \E d \in Days : ValidateDateStep(d)

\* C14: an audit read, a ladder read and a validation leave the team
\* registry, the games and the game results as they were.
C14_ReadsWriteNothing ==
    [][ReadStep => UNCHANGED <<teams, games, game_results>>]_vars

C14_Witness ==
    /\ out.op \in {"audit", "ladder", "validate"}
    /\ DOMAIN teams # {}
    /\ DOMAIN game_results # {}

\* The warnings of a validation that are about the result of game i (the
\* warnings about a team's division name one team, not a game).
ResultWarnings(ws, i) ==
    {w \in Range(ws) : /\ w[1] # MissingDivisionText
                       /\ Len(w) >= 3
                       /\ w[2] = games[i].home_team
                       /\ w[3] = games[i].away_team}

ConductOutOfRange(gr) ==
    \/ gr.home_defaulted = 0 /\ (gr.home_conduct < 0 \/ gr.home_conduct > 10)
    \/ gr.away_defaulted = 0 /\ (gr.away_conduct < 0 \/ gr.away_conduct > 10)

HasNegativeField(gr) ==
    \E f \in {"home_score", "away_score", "home_female_tries", "away_female_tries",
              "home_conduct", "away_conduct", "home_unstripped", "away_unstripped"} :
        gr[f] < 0

\* C15: a validation returns a warning for every saved result in the window
\* in which a side that is not defaulted has a conduct mark outside 0..10.
C15_ConductOutOfRangeWarned ==
    [][\A d \in Days :
          ValidateStep(d) =>
              \A i \in DOMAIN games :
                  (InDateWindow(games, i, d) /\ HasResult(i)
                       /\ ConductOutOfRange(game_results[i]))
                      => ResultWarnings(out'.warnings, i) # {}]_vars

\* C16: a validation returns a warning for every saved result in the window
\* that has a negative score, female-try count, conduct mark or unstripped
\* count on either side.
C16_NegativeFieldWarned ==
    [][\A d \in Days :
          ValidateStep(d) =>
              \A i \in DOMAIN games :
                  (InDateWindow(games, i, d) /\ HasResult(i)
                       /\ HasNegativeField(game_results[i]))
                      => ResultWarnings(out'.warnings, i) # {}]_vars

BothFlagsSet(gr) == gr.home_defaulted # 0 /\ gr.away_defaulted # 0

\* C17: a validation returns the "both marked" warning for a saved result in
\* the window exactly when both of its default flags are set; the condition
\* comes back as a warning in the returned list.
C17_BothFlagsWarned ==
    [][/\ \A d \in Days :
             ValidateStep(d) =>
                 \A i \in DOMAIN games :
                     (InDateWindow(games, i, d) /\ HasResult(i)) =>
                         (BothFlagsSet(game_results[i]) <=>
                              <<InvalidFlagsText, games[i].home_team, games[i].away_team,
                                game_local_date(games[i])>> \in Range(out'.warnings))
       /\ \A d \in Days :
             ValidateDateStep(d) =>
                 \A i \in DOMAIN games :
                     (game_local_date(games[i]) = d /\ HasResult(i)) =>
                         (BothFlagsSet(game_results[i]) <=>
                              <<InvalidFlagsText, games[i].home_team, games[i].away_team>>
                                  \in Range(out'.warnings))]_vars

C17_Witness ==
    /\ out.op = "validate"
    /\ \E i \in DOMAIN games :
          /\ InDateWindow(games, i, out.as_at_date)
          /\ HasResult(i)
          /\ BothFlagsSet(game_results[i])
          /\ out.warnings = ladder_validation_warnings_as_at(out.as_at_date)
          /\ <<InvalidFlagsText, games[i].home_team, games[i].away_team,
               game_local_date(games[i])>> \in Range(out.warnings)

\* C18: a validation returns the "missing result" warning for a game in the
\* window exactly when the game has no saved result; the game stays in the
\* games table, and an upsert of its result is stored, so that a validation
\* after it does not return the warning.
C18_MissingResultWarned ==
    [][/\ \A d \in Days :
             ValidateStep(d) =>
                 \A i \in DOMAIN games :
                     InDateWindow(games, i, d) =>
                         (~HasResult(i) <=>
                              <<MissingResultText, games[i].home_team, games[i].away_team,
                                game_local_date(games[i])>> \in Range(out'.warnings))
       /\ \A d \in Days :
             ValidateDateStep(d) =>
                 \A i \in DOMAIN games :
                     game_local_date(games[i]) = d =>
                         (~HasResult(i) <=>
                              <<MissingResultText, games[i].home_team, games[i].away_team>>
                                  \in Range(out'.warnings))
       /\ \A i \in DOMAIN games, a \in SeasonResultArgs :
             UpsertResultStep(i, a) =>
                 /\ games' = games
                 /\ i \in DOMAIN game_results']_vars

\* A validation warned that the game had no result, and a result has been
\* saved for it since.
C18_Witness ==
    /\ out.op = "validate"
    /\ \E i \in DOMAIN games :
          /\ InDateWindow(games, i, out.as_at_date)
          /\ HasResult(i)
          /\ <<MissingResultText, games[i].home_team, games[i].away_team,
               game_local_date(games[i])>> \in Range(out.warnings)

NoDivision(t) == t \notin DOMAIN teams \/ teams[t].division = ""

\* C19: a validation returns the "missing division" warning for a team
\* exactly when the team is the home or away team of a game in the window and
\* has no division in the registry (or no registry row), whether or not the
\* game has a saved result.
C19_MissingDivisionWarned ==
    [][\A d \in Days :
          ValidateStep(d) =>
              \A t \in TeamNames :
                  (<<MissingDivisionText, t>> \in Range(out'.warnings)) <=>
                      (\E i \in DOMAIN games :
                           /\ InDateWindow(games, i, d)
                           /\ t \in {games[i].home_team, games[i].away_team}
                           /\ NoDivision(t))]_vars

C19_Witness ==
    /\ out.op = "validate"
    /\ out.warnings = ladder_validation_warnings_as_at(out.as_at_date)
    /\ \E i \in DOMAIN games :
          /\ InDateWindow(games, i, out.as_at_date)
          /\ HasResult(i)
          /\ NoDivision(games[i].away_team)
          /\ ~NoDivision(games[i].home_team)
          /\ <<MissingDivisionText, games[i].away_team>> \in Range(out.warnings)
          /\ <<MissingDivisionText, games[i].home_team>> \notin Range(out.warnings)

(***************************************************************************)
(* SpecAdmin: results saved through the "Save result" button               *)
(***************************************************************************)
CannotSaveText == "Cannot save: only one team can be marked as DEFAULTED."

SaveResult_unchecked(game_id, form) ==
    /\ game_id \in DOMAIN games
    /\ upsert_game_result(game_id, form)

\* The button of a game's result form: st.error when both DEFAULTED boxes
\* are ticked, otherwise upsert_game_result with the values of the form
\* (st.rerun follows the save, so no message stays on the page).
SaveResult(game_id, form) ==
    /\ game_id \in DOMAIN games
    /\ IF form.home_defaulted # 0 /\ form.away_defaulted # 0
       THEN /\ out' = [op |-> "save_result", game_id |-> game_id, error |-> CannotSaveText]
            /\ UNCHANGED <<teams, games, game_results, bd>>
       ELSE upsert_game_result(game_id, form)

InitAdmin ==
    /\ teams = EmptyTable
    /\ games = EmptyTable
    /\ game_results = EmptyTable
    /\ bd = NoCall
    /\ out = NoOut

NextAdmin ==
    \/ \E row \in CsvRows : import_games_csv(row)
    \/ \E i \in GameIds, form \in UpsertArgs : SaveResult(i, form)

SpecAdmin == InitAdmin /\ [][NextAdmin]_vars

\* C27: a "Save result" with both DEFAULTED boxes ticked shows an error, does
\* not call upsert_game_result and leaves the stored results as they were;
\* so no result stored through the button has both default flags set.
C27_SaveRefusesBothDefaulted ==
    [][/\ \A i \in GameIds, form \in BothDefaulted :
             SaveResult(i, form) =>
                 /\ game_results' = game_results
                 /\ ~upsert_game_result(i, form)
                 /\ out' = [op |-> "save_result", game_id |-> i, error |-> CannotSaveText]
       /\ \A i \in DOMAIN game_results' : ~BothFlagsSet(game_results'[i])]_vars

\* The error of a refused save is on the page and the game's earlier result
\* is still stored.
C27_Witness ==
    /\ out.op = "save_result"
    /\ out.game_id \in DOMAIN game_results
    /\ game_results[out.game_id].away_defaulted = 1
    /\ game_results[out.game_id].home_defaulted = 0

(***************************************************************************)
(* SpecRegistry: the team registry written by upsert_team, read by the     *)
(* audit and the ladder                                                    *)
(***************************************************************************)
\* Arguments of upsert_team: names and divisions as typed, with and without
\* blanks around them, empty, and of blanks only.
RegistryTeamArgs ==
    {[name |-> "A", division |-> DIVISIONS[1], opening_balance |-> 5],
     [name |-> " A ", division |-> " " \o DIVISIONS[2] \o " ", opening_balance |-> 0],
     [name |-> "B", division |-> DIVISIONS[1], opening_balance |-> 0],
     [name |-> "", division |-> DIVISIONS[1], opening_balance |-> 0],
     [name |-> "  ", division |-> DIVISIONS[1], opening_balance |-> 0],
     [name |-> "B", division |-> "", opening_balance |-> 5],
     [name |-> "A", division |-> " ", opening_balance |-> 5]}

InitRegistry ==
    /\ teams = EmptyTable
    /\ games = EmptyTable
    /\ game_results = EmptyTable
    /\ bd = NoCall
    /\ out = NoOut

NextRegistry ==
    \/ \E a \in RegistryTeamArgs : upsert_team(a.name, a.division, a.opening_balance)
    \/ \E row \in SeasonCsvRows : import_games_csv(row)
    \/ \E i \in GameIds, args \in DrawResultArgs : upsert_game_result(i, args)
    \/ \E d \in Days : ReadAudit(d)
    \/ \E d \in Days, v \in ModelDivisions : ReadLadder(d, v)

SpecRegistry == InitRegistry /\ [][NextRegistry]_vars

Blank(s) == \A k \in 1..Len(s) : SubSeq(s, k, k) = " "

Unpadded(s) == s # "" /\ SubSeq(s, 1, 1) # " " /\ SubSeq(s, Len(s), Len(s)) # " "

UpsertTeamStep(a) ==
    /\ out' = out
    /\ games' = games
    /\ upsert_team(a.name, a.division, a.opening_balance)

\* C30: upsert_team with an empty or blank name or division leaves the
\* registry as it was; otherwise the team of that name has the given division
\* and opening balance afterwards and every other team is as before. So every
\* registered team has a name and a division that are not empty, a team of a
\* fixture is without a division exactly when it is not registered, its
\* audit rows then carry the placeholder division and opening balance 0, and
\* no ladder has a row for it.
C30_RegistryKeepsDivisions ==
    [][/\ \A a \in RegistryTeamArgs :
             UpsertTeamStep(a) =>
                 IF Blank(a.name) \/ Blank(a.division)
                 THEN teams' = teams
                 ELSE \E t \in DOMAIN teams' :
                         /\ Unpadded(t) /\ Unpadded(teams'[t].division)
                         /\ a.name \in {t, " " \o t \o " "}
                         /\ a.division \in {teams'[t].division,
                                            " " \o teams'[t].division \o " "}
                         /\ teams'[t].opening_balance = a.opening_balance
                         /\ DOMAIN teams' = DOMAIN teams \cup {t}
                         /\ \A u \in DOMAIN teams \ {t} : teams'[u] = teams[u]
       /\ \A t \in DOMAIN teams' : Unpadded(t) /\ Unpadded(teams'[t].division)
       /\ \A i \in DOMAIN games' : \A t \in {games'[i].home_team, games'[i].away_team} :
             (t \notin DOMAIN teams' \/ teams'[t].division = "") <=> t \notin DOMAIN teams'
       /\ \A d \in Days :
             AuditStep(d) =>
                 \A j \in 1..Len(out'.df) :
                     LET r == out'.df[j]
                     IN  /\ r.Division = MissingDivision <=> r.Team \notin DOMAIN teams
                         /\ r.Team \notin DOMAIN teams => r.Opening = 0
       /\ \A d \in Days, w \in ModelDivisions :
             LadderStep(d, w) =>
                 \A j \in 1..Len(out'.df) : out'.df[j].Team \in DOMAIN teams]_vars

\* Team A was registered with blanks around its division, team B never was:
\* the audit shows B's game under the placeholder division.
C30_Witness ==
    /\ out.op = "audit"
    /\ "A" \in DOMAIN teams /\ teams["A"].division = DIVISIONS[2]
    /\ "B" \notin DOMAIN teams
    /\ \E j \in 1..Len(out.df) :
          /\ out.df[j].Team = "B"
          /\ out.df[j].Division = MissingDivision
          /\ out.df[j].Opening = 0
    /\ \E j \in 1..Len(out.df) :
          /\ out.df[j].Team = "A"
          /\ out.df[j].Division = DIVISIONS[2]

====
